---- MODULE Spec2Model ----
(***************************************************************************)
(* Batch loader, concurrent batch producer and patch transform of biom3d   *)
(* (src/biom3d/datasets/semseg_batchgen.py).                               *)
(*                                                                         *)
(* SpecLoader   : one BatchGenDataLoader driven by reset() / get_indices() *)
(* SpecProducer : MTBatchGenDataLoader, W workers each with its own loader *)
(*                copy, one bounded queue, one consumer                    *)
(* SpecCenteredPad, SpecRandomCrop, SpecLocatedCrop, SpecForegroundCrop :  *)
(*                one call of a crop / pad function                        *)
(* SpecPatch    : one call of RandomCropAndPadTransform                    *)
(***************************************************************************)
EXTENDS Integers, Sequences, FiniteSets, TLC

VARIABLES
    gen,        \* the BatchGenDataLoader object (its fields)
    ret,        \* outcome of the last get_indices call on gen
    lastOp,     \* last method called on gen
    origin,     \* how the current pass over gen began: fresh / reset / auto
    resetFrom,  \* state gen was in when reset() was last called
    served,     \* batches of indices returned in the current pass
    ended,      \* the pass closed by the last StopIteration
    length,     \* MTBatchGenDataLoader.length, the value of __len__
    loaders,    \* worker -> that worker's own copy of the loader
    wstate,     \* worker -> idle / holding / ended / crashed / stopped
    made,       \* worker -> batches the worker has finished
    queue,      \* finished batches waiting for the consumer (by worker)
    capacity,   \* capacity of the queue
    cstate,     \* consumer: waiting / end / error / aborted
    got,        \* worker -> batches of that worker the consumer received
    failure,    \* the first error raised inside a worker, or NoFailure
    surfaced,   \* the error the consumer's request ended with
    abort,      \* the producer has been aborted
    call,       \* the crop / pad function called and its arguments
    result      \* what that call drew at random and what it returned

loaderVars == <<gen, ret, lastOp, origin, resetFrom, served, ended>>

producerVars == <<length, loaders, wstate, made, queue, capacity, cstate,
                  got, failure, surfaced, abort>>

patchVars == <<call, result>>

vars == <<gen, ret, lastOp, origin, resetFrom, served, ended,
          length, loaders, wstate, made, queue, capacity, cstate,
          got, failure, surfaced, abort, call, result>>

----------------------------------------------------------------------------
(* Bounds of the loader model *)
MaxSteps  == 10    \* nbof_steps ranges over 0..MaxSteps
MaxStride == 3     \* num_threads_in_mt ranges over 1..MaxStride
MaxBatch  == 2     \* batch_size ranges over 1..MaxBatch
MaxFiles  == 2     \* length of the active file list ranges over 1..MaxFiles

(* Bounds of the producer model *)
MaxWorkers   == 2  \* num_threads_in_mt ranges over 1..MaxWorkers
MaxProdSteps == 4  \* nbof_steps ranges over 0..MaxProdSteps
MaxCapacity  == 2  \* queue capacity ranges over 1..MaxCapacity

----------------------------------------------------------------------------
(* BatchGenDataLoader.__init__: the fields the stream of indices depends    *)
(* on. ndata is len(self._data), the length of the active file list.       *)
BatchGenDataLoader(nfiles, batch_size, nbof_steps, num_threads_in_mt) ==
    [ ndata                              |-> nfiles,
      batch_size                         |-> batch_size,
      nbof_steps                         |-> nbof_steps,
      number_of_threads_in_multithreaded |-> num_threads_in_mt,
      current_position                   |-> 0,
      was_initialized                    |-> FALSE ]

(* reset that forgets to rewind the step counter *)
reset_keeps_position(self) ==
    [self EXCEPT !.was_initialized = TRUE]

(* BatchGenDataLoader.reset *)
reset(self) ==
    [self EXCEPT !.current_position = 0, !.was_initialized = TRUE]

(* np.random.choice(self.indices, self.batch_size, replace=True): every    *)
(* sequence of batch_size indices into the data, repetitions allowed.      *)
choice(self) == [1..self.batch_size -> 0..(self.ndata - 1)]

(* get_indices comparing with <= instead of < (one batch too many) *)
get_indices_off_by_one(self) ==
    LET s1 == IF ~self.was_initialized THEN reset(self) ELSE self
    IN  { IF s1.current_position <= s1.nbof_steps
          THEN [self |-> [s1 EXCEPT !.current_position =
                            @ + s1.number_of_threads_in_multithreaded],
                kind |-> "indices", indices |-> i]
          ELSE [self |-> [s1 EXCEPT !.was_initialized = FALSE],
                kind |-> "StopIteration", indices |-> <<>>]
          : i \in choice(s1) }

(* get_indices that leaves was_initialized set when it raises *)
get_indices_stays_initialized(self) ==
    LET s1 == IF ~self.was_initialized THEN reset(self) ELSE self
    IN  { IF s1.current_position < s1.nbof_steps
          THEN [self |-> [s1 EXCEPT !.current_position =
                            @ + s1.number_of_threads_in_multithreaded],
                kind |-> "indices", indices |-> i]
          ELSE [self |-> s1, kind |-> "StopIteration", indices |-> <<>>]
          : i \in choice(s1) }

(* get_indices that advances the step counter by 1 whatever the stride *)
get_indices_unit_stride(self) ==
    LET s1 == IF ~self.was_initialized THEN reset(self) ELSE self
    IN  { IF s1.current_position < s1.nbof_steps
          THEN [self |-> [s1 EXCEPT !.current_position = @ + 1],
                kind |-> "indices", indices |-> i]
          ELSE [self |-> [s1 EXCEPT !.was_initialized = FALSE],
                kind |-> "StopIteration", indices |-> <<>>]
          : i \in choice(s1) }

(* BatchGenDataLoader.get_indices: the set of possible outcomes, one per   *)
(* random draw. An outcome is the loader after the call, how the call      *)
(* ended, and the indices returned (none unless kind = "indices").         *)
get_indices(self) ==
    LET s1 == IF ~self.was_initialized THEN reset(self) ELSE self
    IN  IF s1.batch_size > 0 /\ s1.ndata = 0
        THEN {[self |-> s1, kind |-> "ValueError", indices |-> <<>>]}
        ELSE { IF s1.current_position < s1.nbof_steps
               THEN [self |-> [s1 EXCEPT !.current_position =
                                 @ + s1.number_of_threads_in_multithreaded],
                     kind |-> "indices", indices |-> i]
               ELSE [self |-> [s1 EXCEPT !.was_initialized = FALSE],
                     kind |-> "StopIteration", indices |-> <<>>]
               : i \in choice(s1) }

(* BatchGenDataLoader.generate_train_batch: record i of the batch is the   *)
(* image and the mask of file indices[i]; an exception of get_indices      *)
(* propagates.                                                             *)
generate_train_batch(self) ==
    { [self |-> o.self, kind |-> o.kind,
       batch |-> [data |-> o.indices, seg |-> o.indices]]
      : o \in get_indices(self) }

----------------------------------------------------------------------------
(* One loader used on its own *)

NoPass == [origin |-> "none", from |-> "none", served |-> 0]

NoFailure == [worker |-> 0, error |-> "none"]

NoCall == [fn |-> "none"]

NoResult == [done |-> FALSE]

(* no crop or pad function is being called *)
PatchIdle ==
    /\ call = NoCall
    /\ result = NoResult

(* no producer is running *)
ProducerIdle ==
    /\ length = 0
    /\ loaders = <<>>
    /\ wstate = <<>>
    /\ made = <<>>
    /\ queue = <<>>
    /\ capacity = 0
    /\ cstate = "none"
    /\ got = <<>>
    /\ failure = NoFailure
    /\ surfaced = NoFailure
    /\ abort = FALSE

InitLoader ==
    /\ ProducerIdle
    /\ PatchIdle
    /\ \E nfiles \in 1..MaxFiles, b \in 1..MaxBatch,
          n \in 0..MaxSteps, s \in 1..MaxStride :
          gen = BatchGenDataLoader(nfiles, b, n, s)
    /\ ret = [kind |-> "none", indices |-> <<>>]
    /\ lastOp = "init"
    /\ origin = "fresh"
    /\ resetFrom = "none"
    /\ served = 0
    /\ ended = NoPass

(* where gen stands when a method is called on it *)
Phase ==
    IF lastOp = "init" THEN "unused"
    ELSE IF ret.kind = "StopIteration" /\ lastOp = "get_indices" THEN "exhausted"
    ELSE IF ~gen.was_initialized THEN "unused"
    ELSE "midstream"

(* the caller calls gen.reset() *)
Reset ==
    /\ gen' = reset(gen)
    /\ lastOp' = "reset"
    /\ origin' = "reset"
    /\ resetFrom' = Phase
    /\ served' = 0
    /\ UNCHANGED <<ret, ended>>
    /\ UNCHANGED producerVars
    /\ UNCHANGED patchVars

(* the caller calls gen.get_indices() *)
GetIndices ==
    \E o \in get_indices(gen) :
        /\ UNCHANGED producerVars
        /\ UNCHANGED patchVars
        /\ gen' = o.self
        /\ ret' = [kind |-> o.kind, indices |-> o.indices]
        /\ lastOp' = "get_indices"
        /\ IF o.kind = "indices"
           THEN /\ served' = served + 1
                /\ UNCHANGED <<origin, resetFrom, ended>>
           ELSE IF o.kind = "StopIteration"
           THEN /\ ended' = [origin |-> origin, from |-> resetFrom,
                             served |-> served]
                /\ origin' = "auto"
                /\ resetFrom' = "none"
                /\ served' = 0
           ELSE UNCHANGED <<origin, resetFrom, served, ended>>

NextLoader == Reset \/ GetIndices

SpecLoader == InitLoader /\ [][NextLoader]_vars

----------------------------------------------------------------------------
(* Claims about the loader used on its own (SpecLoader) *)

(* C1 as stated: once get_indices has raised StopIteration, a further     *)
(* get_indices call made without reset() in between does not return a     *)
(* batch of indices.                                                       *)
C1_ExhaustedCallIsError ==
    [][(Phase = "exhausted" /\ lastOp' = "get_indices")
          => ret'.kind # "indices"]_vars

(* C1 amended: raising StopIteration clears was_initialized, so the next   *)
(* get_indices call made without reset() rewinds the step counter itself   *)
(* and returns a batch of indices when nbof_steps > 0; it raises           *)
(* StopIteration again only when nbof_steps = 0.                           *)
C1_ExhaustedCallRestarts ==
    [][(Phase = "exhausted" /\ lastOp' = "get_indices")
          => /\ ~gen.was_initialized
             /\ gen.nbof_steps > 0 =>
                   /\ ret'.kind = "indices"
                   /\ Len(ret'.indices) = gen.batch_size
                   /\ gen'.current_position =
                         gen.number_of_threads_in_multithreaded
             /\ gen.nbof_steps = 0 => ret'.kind = "StopIteration"]_vars

(* a call made right after StopIteration, with no reset(), returned indices *)
C1_Witness ==
    /\ origin = "auto" /\ ended.origin # "none"
    /\ lastOp = "get_indices" /\ ret.kind = "indices" /\ served = 1

(* C2: with stride 1 a freshly constructed loader returns indices on       *)
(* exactly its first nbof_steps calls and raises StopIteration on the next *)
(* one, which returns no indices.                                          *)
C2_FirstNCallsThenStop ==
    gen.number_of_threads_in_multithreaded = 1 =>
        /\ origin = "fresh" =>
              /\ served <= gen.nbof_steps
              /\ served = gen.current_position
              /\ ret.kind \in {"none", "indices"}
              /\ served > 0 => Len(ret.indices) = gen.batch_size
        /\ ended.origin = "fresh" => ended.served = gen.nbof_steps
        /\ ret.kind = "StopIteration" => ret.indices = <<>>

(* total_steps = 10, batch_size = 2, stride 1: ten calls served, the       *)
(* eleventh raised StopIteration                                           *)
C2_Witness ==
    /\ gen.nbof_steps = 10 /\ gen.batch_size = 2
    /\ gen.number_of_threads_in_multithreaded = 1
    /\ ended.origin = "fresh" /\ ended.served = 10
    /\ lastOp = "get_indices" /\ ret.kind = "StopIteration"

(* number of batches a loader returns before it raises StopIteration,      *)
(* found by running get_indices on it (at most fuel calls)                 *)
RECURSIVE BatchesUntilStop(_, _)
BatchesUntilStop(self, fuel) ==
    LET o == CHOOSE x \in get_indices(self) : TRUE
    IN  IF fuel = 0 \/ o.kind # "indices" THEN 0
        ELSE 1 + BatchesUntilStop(o.self, fuel - 1)

FreshBatches(g) ==
    BatchesUntilStop(
        BatchGenDataLoader(g.ndata, g.batch_size, g.nbof_steps,
                           g.number_of_threads_in_multithreaded),
        g.nbof_steps + 1)

(* C3: after reset(), called in any state, the step counter is 0 and the   *)
(* loader is initialised, and the pass that follows returns as many        *)
(* batches before StopIteration as a freshly constructed loader with the   *)
(* same nbof_steps and stride.                                             *)
C3_ResetRestarts ==
    /\ lastOp = "reset" =>
          gen.current_position = 0 /\ gen.was_initialized /\ served = 0
    /\ ended.origin = "reset" => ended.served = FreshBatches(gen)

(* reset() was called mid-stream and the pass after it ran to the end *)
C3_Witness ==
    /\ ended.origin = "reset" /\ ended.from = "midstream"
    /\ ended.served >= 2
    /\ lastOp = "get_indices" /\ ret.kind = "StopIteration"

----------------------------------------------------------------------------
(* The concurrent batch producer *)

(* the producer built without handing num_threads_in_mt to its loader,    *)
(* which then keeps the default stride of 12                               *)
MTBatchGenDataLoader_default_stride(nfiles, batch_size, nbof_steps, num_threads_in_mt) ==
    [ gen           |-> BatchGenDataLoader(nfiles, batch_size, nbof_steps, 12),
      length        |-> nbof_steps,
      num_processes |-> num_threads_in_mt ]

(* MTBatchGenDataLoader.__init__ and __len__: one loader gen is built with *)
(* num_threads_in_mt as its stride, length is nbof_steps, and gen is       *)
(* handed to the multi-threaded augmenter with num_threads_in_mt workers.  *)
MTBatchGenDataLoader(nfiles, batch_size, nbof_steps, num_threads_in_mt) ==
    [ gen           |-> BatchGenDataLoader(nfiles, batch_size, nbof_steps,
                                           num_threads_in_mt),
      length        |-> nbof_steps,
      num_processes |-> num_threads_in_mt ]

Workers == DOMAIN loaders

(* one loader object shared by all workers: a call in one worker moves     *)
(* the step counter of all                                                 *)
shared_loader(ls, w, l) == [v \in DOMAIN ls |-> l]

(* a call of worker w changes the loader of worker w alone: step counter   *)
(* and initialised flag belong to the worker                               *)
own_loader(ls, w, l) == [ls EXCEPT ![w] = l]

RECURSIVE SumTo(_, _)
SumTo(f, n) == IF n = 0 THEN 0 ELSE f[n] + SumTo(f, n - 1)

(* batches counted over all workers *)
Total(f) == SumTo(f, Len(f))

(* the producer as started: every worker holds its own copy of gen, the    *)
(* queue is empty and the consumer asks for its first batch                *)
Started(p, cap) ==
    /\ gen = p.gen
    /\ length = p.length
    /\ loaders = [w \in 1..p.num_processes |-> p.gen]
    /\ wstate = [w \in 1..p.num_processes |-> "idle"]
    /\ made = [w \in 1..p.num_processes |-> 0]
    /\ got = [w \in 1..p.num_processes |-> 0]
    /\ queue = <<>>
    /\ capacity = cap
    /\ cstate = "waiting"
    /\ failure = NoFailure
    /\ surfaced = NoFailure
    /\ abort = FALSE
    /\ PatchIdle
    /\ ret = [kind |-> "none", indices |-> <<>>]
    /\ lastOp = "init"
    /\ origin = "fresh"
    /\ resetFrom = "none"
    /\ served = 0
    /\ ended = NoPass

InitProducer ==
    \E n \in 0..MaxProdSteps, w \in 1..MaxWorkers, cap \in 1..MaxCapacity :
        Started(MTBatchGenDataLoader(1, 1, n, w), cap)

(* worker w draws a batch from its loader and augments it *)
WorkerProduce(w) ==
    /\ wstate[w] = "idle" /\ ~abort
    /\ \E o \in generate_train_batch(loaders[w]) :
          /\ o.kind = "indices"
          /\ loaders' = own_loader(loaders, w, o.self)
    /\ wstate' = [wstate EXCEPT ![w] = "holding"]
    /\ made' = [made EXCEPT ![w] = @ + 1]
    /\ UNCHANGED <<length, queue, capacity, cstate, got, failure, surfaced,
                   abort>>
    /\ UNCHANGED loaderVars
    /\ UNCHANGED patchVars

(* worker w draws a batch and the augmentation of one record fails *)
WorkerCrash(w) ==
    /\ wstate[w] = "idle" /\ ~abort
    /\ \E o \in generate_train_batch(loaders[w]) :
          /\ o.kind # "StopIteration"
          /\ loaders' = own_loader(loaders, w, o.self)
    /\ wstate' = [wstate EXCEPT ![w] = "crashed"]
    /\ failure' = IF failure = NoFailure
                  THEN [worker |-> w, error |-> "AugmentationError"]
                  ELSE failure
    /\ UNCHANGED <<length, made, queue, capacity, cstate, got, surfaced,
                   abort>>
    /\ UNCHANGED loaderVars
    /\ UNCHANGED patchVars

(* worker w's loader raises StopIteration *)
WorkerEnd(w) ==
    /\ wstate[w] = "idle" /\ ~abort
    /\ \E o \in generate_train_batch(loaders[w]) :
          /\ o.kind = "StopIteration"
          /\ loaders' = own_loader(loaders, w, o.self)
    /\ wstate' = [wstate EXCEPT ![w] = "ended"]
    /\ UNCHANGED <<length, made, queue, capacity, cstate, got, failure,
                   surfaced, abort>>
    /\ UNCHANGED loaderVars
    /\ UNCHANGED patchVars

(* a put that does not look at the capacity *)
WorkerPut_unbounded(w) ==
    /\ wstate[w] = "holding" /\ ~abort
    /\ queue' = Append(queue, w)
    /\ wstate' = [wstate EXCEPT ![w] = "idle"]
    /\ UNCHANGED <<length, loaders, made, capacity, cstate, got, failure,
                   surfaced, abort>>
    /\ UNCHANGED loaderVars
    /\ UNCHANGED patchVars

(* worker w puts its finished batch into the queue; it waits while the     *)
(* queue is full                                                           *)
WorkerPut(w) ==
    /\ wstate[w] = "holding" /\ ~abort
    /\ Len(queue) < capacity
    /\ queue' = Append(queue, w)
    /\ wstate' = [wstate EXCEPT ![w] = "idle"]
    /\ UNCHANGED <<length, loaders, made, capacity, cstate, got, failure,
                   surfaced, abort>>
    /\ UNCHANGED loaderVars
    /\ UNCHANGED patchVars

(* a teardown that reaches only the workers not waiting on the queue *)
WorkerStop_only_idle(w) ==
    /\ abort
    /\ wstate[w] = "idle"
    /\ wstate' = [wstate EXCEPT ![w] = "stopped"]
    /\ UNCHANGED <<length, loaders, made, queue, capacity, cstate, got,
                   failure, surfaced, abort>>
    /\ UNCHANGED loaderVars
    /\ UNCHANGED patchVars

(* worker w is torn down after an abort *)
WorkerStop(w) ==
    /\ abort
    /\ wstate[w] \in {"idle", "holding"}
    /\ wstate' = [wstate EXCEPT ![w] = "stopped"]
    /\ UNCHANGED <<length, loaders, made, queue, capacity, cstate, got,
                   failure, surfaced, abort>>
    /\ UNCHANGED loaderVars
    /\ UNCHANGED patchVars

(* the failure of a worker is swallowed instead of reaching the producer *)
Propagate_swallowed ==
    /\ failure # NoFailure /\ ~abort
    /\ failure' = NoFailure
    /\ UNCHANGED <<length, loaders, wstate, made, queue, capacity, cstate,
                   got, surfaced, abort>>
    /\ UNCHANGED loaderVars
    /\ UNCHANGED patchVars

(* the failure of a worker reaches the producer, which aborts *)
Propagate ==
    /\ failure # NoFailure /\ ~abort
    /\ abort' = TRUE
    /\ UNCHANGED <<length, loaders, wstate, made, queue, capacity, cstate,
                   got, failure, surfaced>>
    /\ UNCHANGED loaderVars
    /\ UNCHANGED patchVars

(* the producer is aborted from outside *)
Abort ==
    /\ ~abort /\ cstate = "waiting"
    /\ abort' = TRUE
    /\ UNCHANGED <<length, loaders, wstate, made, queue, capacity, cstate,
                   got, failure, surfaced>>
    /\ UNCHANGED loaderVars
    /\ UNCHANGED patchVars

(* the consumer receives the batch at the head of the queue; it waits      *)
(* while the queue is empty                                                *)
ConsumerGet ==
    /\ cstate = "waiting" /\ ~abort /\ failure = NoFailure
    /\ queue # <<>>
    /\ got' = [got EXCEPT ![Head(queue)] = @ + 1]
    /\ queue' = Tail(queue)
    /\ UNCHANGED <<length, loaders, wstate, made, capacity, cstate, failure,
                   surfaced, abort>>
    /\ UNCHANGED loaderVars
    /\ UNCHANGED patchVars

(* end-of-stream told as soon as the workers have ended, whatever is      *)
(* still queued                                                            *)
ConsumerEnd_without_drain ==
    /\ cstate = "waiting" /\ ~abort /\ failure = NoFailure
    /\ \A w \in Workers : wstate[w] = "ended"
    /\ cstate' = "end"
    /\ UNCHANGED <<length, loaders, wstate, made, queue, capacity, got,
                   failure, surfaced, abort>>
    /\ UNCHANGED loaderVars
    /\ UNCHANGED patchVars

(* the consumer is told end-of-stream: every worker's loader has raised    *)
(* StopIteration and the queue is drained                                  *)
ConsumerEnd ==
    /\ cstate = "waiting" /\ ~abort /\ failure = NoFailure
    /\ \A w \in Workers : wstate[w] = "ended"
    /\ queue = <<>>
    /\ cstate' = "end"
    /\ UNCHANGED <<length, loaders, wstate, made, queue, capacity, got,
                   failure, surfaced, abort>>
    /\ UNCHANGED loaderVars
    /\ UNCHANGED patchVars

(* the consumer's request ends with the error of the failed worker *)
ConsumerError ==
    /\ cstate = "waiting" /\ abort /\ failure # NoFailure
    /\ cstate' = "error"
    /\ surfaced' = failure
    /\ UNCHANGED <<length, loaders, wstate, made, queue, capacity, got,
                   failure, abort>>
    /\ UNCHANGED loaderVars
    /\ UNCHANGED patchVars

(* the consumer's request is released by an abort *)
ConsumerAborted ==
    /\ cstate = "waiting" /\ abort /\ failure = NoFailure
    /\ cstate' = "aborted"
    /\ UNCHANGED <<length, loaders, wstate, made, queue, capacity, got,
                   failure, surfaced, abort>>
    /\ UNCHANGED loaderVars
    /\ UNCHANGED patchVars

WorkerStep(w) ==
    \/ WorkerProduce(w)
    \/ WorkerEnd(w)
    \/ WorkerPut(w)
    \/ WorkerStop(w)

ConsumerStep ==
    \/ ConsumerGet
    \/ ConsumerEnd
    \/ ConsumerError
    \/ ConsumerAborted

(* steps of a run in which nothing fails and nobody aborts *)
NextNormal ==
    \/ \E w \in Workers : WorkerProduce(w)
    \/ \E w \in Workers : WorkerEnd(w)
    \/ \E w \in Workers : WorkerPut(w)
    \/ ConsumerGet
    \/ ConsumerEnd

NextProducer ==
    \/ \E w \in Workers : WorkerProduce(w)
    \/ \E w \in Workers : WorkerEnd(w)
    \/ \E w \in Workers : WorkerPut(w)
    \/ \E w \in Workers : WorkerCrash(w)
    \/ \E w \in Workers : WorkerStop(w)
    \/ Propagate
    \/ Abort
    \/ ConsumerGet
    \/ ConsumerEnd
    \/ ConsumerError
    \/ ConsumerAborted

SpecProducer == InitProducer /\ [][NextProducer]_vars

(* workers, the consumer and the propagation of a failure are scheduled    *)
(* fairly; failures and aborts from outside need not happen                *)
Fairness ==
    /\ \A w \in 1..(MaxWorkers + 1) : WF_vars(w \in Workers /\ WorkerStep(w))
    /\ WF_vars(ConsumerStep)
    /\ WF_vars(Propagate)

FairProducer == SpecProducer /\ Fairness

(* the run with 4 workers and total_steps = 40 (stride 4) in which        *)
(* nothing fails and nobody aborts; a queue of capacity 1 makes the        *)
(* workers wait for each other as often as possible                        *)
InitC4 == Started(MTBatchGenDataLoader(1, 1, 40, 4), 1)

SpecC4 == InitC4 /\ [][NextNormal]_vars

----------------------------------------------------------------------------
(* Claims about the producer *)

AllEnded == \A w \in Workers : wstate[w] = "ended"

Final(w) == wstate[w] \in {"ended", "crashed", "stopped"}

(* C4: with 4 workers and total_steps = 40, each worker's loader advancing *)
(* by the stride 4, the consumer has received exactly 40 batches when it   *)
(* is told end-of-stream, under every interleaving (never more before).    *)
C4_FortyBatches ==
    /\ Total(got) <= 40
    /\ cstate = "end" => Total(got) = 40 /\ \A w \in Workers : got[w] = 10

(* the consumer was told end-of-stream after the 40 batches *)
C4_Witness ==
    /\ Cardinality(Workers) = 4 /\ length = 40
    /\ cstate = "end" /\ Total(got) = 40

(* C5: for every number of workers and every total_steps >= 1 the number   *)
(* of batches the consumer has received at end-of-stream equals            *)
(* len(producer) = nbof_steps.                                             *)
C5_DeliversLength ==
    (cstate = "end" /\ length >= 1) => Total(got) = length

(* C6: under fair scheduling, once every worker's loader has raised        *)
(* StopIteration the consumer receives every batch a worker finished,      *)
(* the last one of each worker included, and only then end-of-stream; and  *)
(* while the consumer waits, some worker or the consumer can take a step.  *)
C6_DrainThenEnd ==
    /\ [](cstate = "end" => got = made /\ queue = <<>>)
    /\ [](cstate = "waiting" =>
            ENABLED ((\E w \in Workers : WorkerStep(w)) \/ ConsumerStep
                       \/ Propagate))
    /\ (AllEnded /\ ~abort) ~> (abort \/ (cstate = "end" /\ got = made))

(* end-of-stream reached the consumer after batches of several workers *)
C6_Witness ==
    /\ cstate = "end" /\ Cardinality(Workers) >= 2
    /\ \A w \in Workers : made[w] >= 2 /\ got[w] = made[w]

(* C7: the queue never holds more batches than its capacity; a worker      *)
(* holding a finished batch while the queue is full keeps it (the batch is *)
(* neither dropped nor written over a queued one), and the consumer        *)
(* receives nothing while the queue is empty.                              *)
C7_BoundedQueue ==
    /\ [](Len(queue) <= capacity)
    /\ [][ /\ \A w \in Workers :
                (wstate[w] = "holding" /\ Len(queue) = capacity) =>
                    /\ wstate'[w] \in {"holding", "stopped"}
                    /\ queue' \in {queue, Tail(queue)}
           /\ queue = <<>> => got' = got ]_vars

(* a worker holds a finished batch in front of a full queue *)
C7_Witness ==
    /\ Len(queue) = capacity /\ ~abort
    /\ \E w \in Workers : wstate[w] = "holding"

(* C8: a step of one worker's loader leaves the step counter and the       *)
(* initialised flag of every other worker unchanged, and a worker whose    *)
(* loader raised StopIteration has finished as many batches as a fresh     *)
(* loader of its own yields, whatever the other workers did.               *)
C8_OwnLoaderState ==
    /\ [][ \A w \in Workers :
             loaders'[w] # loaders[w] =>
                 \A v \in Workers \ {w} :
                     /\ loaders'[v] = loaders[v]
                     /\ wstate'[v] = wstate[v] ]_vars
    /\ [](\A w \in Workers :
             wstate[w] = "ended" => made[w] = FreshBatches(loaders[w]))

(* one worker has ended while another is still in the middle of its stream *)
C8_Witness ==
    \E w, v \in Workers :
        /\ wstate[w] = "ended"
        /\ wstate[v] = "idle" /\ loaders[v].was_initialized
        /\ loaders[v].current_position < loaders[v].nbof_steps

C10_AbortReleases ==
    abort ~> ((\A w \in Workers : Final(w)) /\ cstate # "waiting")

(* an abort released a worker that was blocked on the full queue *)
C10_Witness ==
    /\ abort /\ failure = NoFailure /\ cstate = "aborted"
    /\ Len(queue) = capacity
    /\ \E w \in Workers : wstate[w] = "stopped" /\ made[w] > got[w]
    /\ \A w \in Workers : Final(w)

----------------------------------------------------------------------------
(* Crop and pad of (image, mask) pairs                                     *)
(*                                                                         *)
(* An array is its numpy shape (channel axis first, then the spatial      *)
(* axes) and its elements, indexed from 0 on every axis.                   *)

(* Bounds of the crop and pad model *)
MaxSize   == 3     \* every spatial axis has a size in 1..MaxSize
MaxMargin == 1     \* margins range over 0..MaxMargin
MaxDepth  == 1     \* the first axis of a volume has a size in 1..MaxDepth

Max2(a, b) == IF a >= b THEN a ELSE b

Min2(a, b) == IF a <= b THEN a ELSE b

RECURSIVE MaxOf(_)
MaxOf(v) == IF v = <<>> THEN 0 ELSE Max2(Head(v), MaxOf(Tail(v)))

(* the indices of an array of the given shape *)
Index(shape) ==
    { i \in [1..Len(shape) -> 0..(MaxOf(shape) - 1)] :
        \A k \in 1..Len(shape) : i[k] < shape[k] }

NoArray == [shape |-> <<>>, at |-> <<>>]

(* position of index i in row-major order *)
RECURSIVE Linear(_, _)
Linear(shape, i) ==
    IF shape = <<>> THEN 0
    ELSE LET n == Len(shape)
         IN  i[n] + shape[n] * Linear(SubSeq(shape, 1, n - 1),
                                      SubSeq(i, 1, n - 1))

(* an image whose elements are all different and none of them 0 *)
Arange(shape) ==
    [shape |-> shape, at |-> [i \in Index(shape) |-> 1 + Linear(shape, i)]]

(* a mask whose channel c has the value 1 exactly at the voxels fg[c + 1] *)
Mask(spatial, fg) ==
    LET shape == <<Len(fg)>> \o spatial
    IN  [shape |-> shape,
         at |-> [i \in Index(shape) |->
                   IF Tail(i) \in fg[i[1] + 1] THEN 1 ELSE 0]]

(* numpy broadcasting of one-axis vectors: lengths must agree or be 1 *)
Broadcastable(vs) ==
    \A v \in vs : \A u \in vs : Len(v) = Len(u) \/ Len(v) = 1 \/ Len(u) = 1

BroadcastLen(vs) ==
    CHOOSE n \in {Len(v) : v \in vs} : \A v \in vs : Len(v) <= n

(* element k of v broadcast to a longer vector *)
Elem(v, k) == IF Len(v) = 1 THEN v[1] ELSE v[k]

(* a randint whose upper end can be drawn too *)
randint_high_included(low, high) ==
    { s \in [1..Len(low) -> 0..MaxOf(high)] :
        \A k \in 1..Len(low) : low[k] <= s[k] /\ s[k] <= high[k] }

(* np.random.randint(low, high): low <= start < high on every axis *)
randint(low, high) ==
    { s \in [1..Len(low) -> 0..MaxOf(high)] :
        \A k \in 1..Len(low) : low[k] <= s[k] /\ s[k] < high[k] }

(* arr[idx] for idx a tuple of slices lo:hi with 0 <= lo: a slice is cut   *)
(* at the end of its axis, axes past the last slice are kept whole         *)
Slice(arr, idx) ==
    LET n     == Len(arr.shape)
        lo(k) == IF k <= Len(idx) THEN Min2(idx[k][1], arr.shape[k]) ELSE 0
        hi(k) == IF k <= Len(idx) THEN Min2(idx[k][2], arr.shape[k])
                 ELSE arr.shape[k]
        shape == [k \in 1..n |-> Max2(0, hi(k) - lo(k))]
    IN  [shape |-> shape,
         at |-> [i \in Index(shape) |-> arr.at[[k \in 1..n |-> i[k] + lo(k)]]]]

(* np.pad(arr, pad, 'constant', constant_values=0) *)
Pad(arr, pad) ==
    LET n     == Len(arr.shape)
        shape == [k \in 1..n |-> pad[k][1] + arr.shape[k] + pad[k][2]]
        src(i) == [k \in 1..n |-> i[k] - pad[k][1]]
    IN  [shape |-> shape,
         at |-> [i \in Index(shape) |->
                   IF src(i) \in Index(arr.shape) THEN arr.at[src(i)] ELSE 0]]

Failed(e) == [error |-> e, start |-> <<>>, img |-> NoArray, msk |-> NoArray]

(* the crop of img and msk at start: idx is the slice over all channels   *)
(* of img followed by start[k]:start[k]+crop_shape[k] on every axis        *)
Cropped(img, msk, start, crop_shape) ==
    LET idx == <<<<0, img.shape[1]>>>> \o
               [k \in 1..Len(start) |-> <<start[k], start[k] + Elem(crop_shape, k)>>]
    IN  IF Len(idx) > Len(img.shape) \/ Len(idx) > Len(msk.shape)
        THEN Failed("IndexError")
        ELSE [error |-> "none", start |-> start,
              img |-> Slice(img, idx), msk |-> Slice(msk, idx)]

(* located_crop: one outcome per start that randint can draw *)
located_crop(img, msk, location, crop_shape, margin) ==
    LET img_shape == Tail(img.shape)
        vs == {img_shape, location, crop_shape, margin}
        n  == BroadcastLen(vs)
        lower_bound ==
            [k \in 1..n |->
               Max2(0, Elem(location, k) - Elem(crop_shape, k) + Elem(margin, k))]
        higher_bound ==
            [k \in 1..n |->
               Max2(lower_bound[k] + 1,
                    Min2(Elem(location, k) - Elem(margin, k),
                         Elem(img_shape, k) - Elem(crop_shape, k)))]
        high == [k \in 1..n |-> Max2(lower_bound[k] + 1, higher_bound[k])]
    IN  IF ~Broadcastable(vs) THEN {Failed("ValueError")}
        ELSE { Cropped(img, msk, start, crop_shape) :
                 start \in randint(lower_bound, high) }

(* random_crop drawing its start with the upper end included *)
random_crop_inclusive(img, msk, crop_shape) ==
    LET img_shape == Tail(img.shape)
        high == [k \in 1..Len(img_shape) |->
                   Max2(1, img_shape[k] - crop_shape[k]) + 1]
    IN  IF Len(img_shape) # Len(crop_shape) THEN {Failed("AssertionError")}
        ELSE { Cropped(img, msk, start, crop_shape) :
                 start \in randint([k \in 1..Len(high) |-> 0], high) }

(* random_crop: one outcome per start that randint can draw *)
random_crop(img, msk, crop_shape) ==
    LET img_shape == Tail(img.shape)
        high == [k \in 1..Len(img_shape) |->
                   Max2(1, img_shape[k] - crop_shape[k])]
    IN  IF Len(img_shape) # Len(crop_shape) THEN {Failed("AssertionError")}
        ELSE { Cropped(img, msk, start, crop_shape) :
                 start \in randint([k \in 1..Len(high) |-> 0], high) }

(* pad widths with the trailing width computed without the leading one *)
pad_widths_end_ignores_start(img, final_size) ==
    LET img_shape == Tail(img.shape)
        d     == Len(img_shape)
        half(k)  == (final_size[k] - img_shape[k]) \div 2
        start(k) == IF half(k) > 0 THEN half(k) ELSE 0
        rest(k)  == final_size[k] - img_shape[k]
        end(k)   == IF rest(k) > 0 THEN rest(k) ELSE 0
    IN  <<<<0, 0>>>> \o [k \in 1..d |-> <<start(k), end(k)>>]

(* pad widths with the odd extra element put before the content *)
pad_widths_extra_in_front(img, final_size) ==
    LET img_shape == Tail(img.shape)
        d     == Len(img_shape)
        half(k)  == (final_size[k] - img_shape[k] + 1) \div 2
        start(k) == IF half(k) > 0 THEN half(k) ELSE 0
        rest(k)  == final_size[k] - (img_shape[k] + start(k))
        end(k)   == IF rest(k) > 0 THEN rest(k) ELSE 0
    IN  <<<<0, 0>>>> \o [k \in 1..d |-> <<start(k), end(k)>>]

(* the amounts centered_pad puts before and after every axis; the channel  *)
(* axis gets none                                                          *)
pad_widths(img, final_size) ==
    LET img_shape == Tail(img.shape)
        d     == Len(img_shape)
        half(k)  == (final_size[k] - img_shape[k]) \div 2
        start(k) == IF half(k) > 0 THEN half(k) ELSE 0
        rest(k)  == final_size[k] - (img_shape[k] + start(k))
        end(k)   == IF rest(k) > 0 THEN rest(k) ELSE 0
    IN  <<<<0, 0>>>> \o [k \in 1..d |-> <<start(k), end(k)>>]

(* centered_pad that pads the image and returns the mask as it was *)
centered_pad_img_only(img, final_size, msk) ==
    LET pad == pad_widths(img, final_size)
    IN  [error |-> "none", pad |-> pad, img |-> Pad(img, pad), msk |-> msk]

(* centered_pad of semseg_batchgen.py; msk = NoArray stands for msk=None *)
centered_pad(img, final_size, msk) ==
    LET pad == pad_widths(img, final_size)
    IN  [error |-> "none", pad |-> pad,
         img |-> Pad(img, pad),
         msk |-> IF msk = NoArray THEN NoArray ELSE Pad(msk, pad)]

(* centered_pad of utils.py *)
utils_centered_pad(img, final_size, msk) ==
    LET final   == final_size
        shape   == Tail(img.shape)
        half(k)  == (final[k] - shape[k]) \div 2
        start(k) == IF half(k) > 0 THEN half(k) ELSE 0
        rest(k)  == final[k] - (shape[k] + start(k))
        end(k)   == IF rest(k) > 0 THEN rest(k) ELSE 0
        pad == <<<<0, 0>>>> \o [k \in 1..Len(shape) |-> <<start(k), end(k)>>]
    IN  [error |-> "none", pad |-> pad,
         img |-> Pad(img, pad),
         msk |-> IF msk = NoArray THEN NoArray ELSE Pad(msk, pad)]

----------------------------------------------------------------------------
(* Inputs of the crop and pad functions *)

(* no loader has been built *)
LoaderIdle ==
    /\ gen = <<>>
    /\ ret = [kind |-> "none", indices |-> <<>>]
    /\ lastOp = "init"
    /\ origin = "fresh"
    /\ resetFrom = "none"
    /\ served = 0
    /\ ended = NoPass

(* spatial shapes: planes of 2 axes and volumes of 3 axes *)
Planes == [1..2 -> 1..MaxSize]

Volumes == { <<z>> \o p : z \in 1..MaxDepth, p \in Planes }

(* pairs of spatial shapes with the same number of axes *)
ShapePairs == (Planes \X Planes) \cup (Volumes \X Volumes)

Image(spatial) == Arange(<<1>> \o spatial)

FirstVoxel(spatial) == [k \in 1..Len(spatial) |-> 0]

LastVoxel(spatial) == [k \in 1..Len(spatial) |-> spatial[k] - 1]

(* foregrounds of one mask channel: none, one corner, the other, both *)
Foregrounds(spatial) ==
    { {}, {FirstVoxel(spatial)}, {LastVoxel(spatial)},
      {FirstVoxel(spatial), LastVoxel(spatial)} }

(* masks of one or two channels over the given spatial shape *)
Masks(spatial) ==
    { Mask(spatial, fg) :
        fg \in [1..1 -> Foregrounds(spatial)] \cup
               [1..2 -> Foregrounds(spatial)] }

Uniform(d, m) == [k \in 1..d |-> m]

SpatialShape(arr) == Tail(arr.shape)

Returned(out) == [done |-> TRUE, out |-> out]

PatchInit ==
    /\ LoaderIdle
    /\ ProducerIdle
    /\ PatchIdle

----------------------------------------------------------------------------
(* centered_pad called on its own, with and without a mask *)

CenteredPad ==
    /\ PatchIdle
    /\ \E sp \in ShapePairs :
      \E msk \in Masks(sp[1]) \cup {NoArray} :
          /\ call' = [fn |-> "centered_pad", img |-> Image(sp[1]),
                      msk |-> msk, final_size |-> sp[2]]
          /\ result' = Returned(centered_pad(Image(sp[1]), sp[2], msk))
          /\ UNCHANGED loaderVars
          /\ UNCHANGED producerVars

UtilsCenteredPad ==
    /\ PatchIdle
    /\ \E sp \in ShapePairs :
      \E msk \in Masks(sp[1]) \cup {NoArray} :
          /\ call' = [fn |-> "utils.centered_pad", img |-> Image(sp[1]),
                      msk |-> msk, final_size |-> sp[2]]
          /\ result' = Returned(utils_centered_pad(Image(sp[1]), sp[2], msk))
          /\ UNCHANGED loaderVars
          /\ UNCHANGED producerVars

NextCenteredPad == CenteredPad \/ UtilsCenteredPad

SpecCenteredPad == PatchInit /\ [][NextCenteredPad]_vars

Padded == result.done /\ call.fn \in {"centered_pad", "utils.centered_pad"}

(* C15: centered_pad returns, per spatial axis, the target size where the  *)
(* target is at least the source size and the source size where the source *)
(* is larger; the channel axis is never padded. Both copies of the         *)
(* function (semseg_batchgen.py and utils.py) behave so.                   *)
C15_PadSize ==
    Padded =>
        LET src == SpatialShape(call.img)
            out == result.out.img
        IN  /\ result.out.error = "none"
            /\ Len(out.shape) = Len(call.img.shape)
            /\ out.shape[1] = call.img.shape[1]
            /\ \A k \in 1..Len(src) :
                  SpatialShape(out)[k] =
                      IF call.final_size[k] >= src[k] THEN call.final_size[k]
                      ELSE src[k]

(* a call that padded one axis and left a larger axis as it was *)
C15_Witness ==
    /\ Padded
    /\ \E k \in 1..Len(call.final_size) :
          /\ call.final_size[k] > SpatialShape(call.img)[k] + 1
          /\ SpatialShape(result.out.img)[k] = call.final_size[k]
    /\ \E k \in 1..Len(call.final_size) :
          /\ call.final_size[k] < SpatialShape(call.img)[k]
          /\ SpatialShape(result.out.img)[k] = SpatialShape(call.img)[k]

(* C16: on an axis short by d, centered_pad puts floor(d/2) elements       *)
(* before the content and d - floor(d/2) after it, all of them 0; the      *)
(* content is unchanged and starts at offset floor(d/2); a mask that is    *)
(* given receives the same padding.                                        *)
C16_PadPlacement ==
    Padded =>
        LET src    == SpatialShape(call.img)
            n      == Len(src)
            d(k)   == IF call.final_size[k] > src[k]
                      THEN call.final_size[k] - src[k] ELSE 0
            off    == [k \in 1..n + 1 |-> IF k = 1 THEN 0 ELSE d(k - 1) \div 2]
            placed(a, b) ==
                /\ b.shape = [k \in 1..n + 1 |->
                                IF k = 1 THEN a.shape[1] ELSE src[k - 1] + d(k - 1)]
                /\ \A i \in Index(b.shape) :
                      LET j == [k \in 1..n + 1 |-> i[k] - off[k]]
                      IN  b.at[i] = IF j \in Index(a.shape) THEN a.at[j] ELSE 0
        IN  /\ \A k \in 1..n :
                  /\ result.out.pad[k + 1][1] = d(k) \div 2
                  /\ result.out.pad[k + 1][2] = d(k) - (d(k) \div 2)
            /\ placed(call.img, result.out.img)
            /\ IF call.msk = NoArray THEN result.out.msk = NoArray
               ELSE placed(call.msk, result.out.msk)

(* an axis short by an odd amount has been padded, image and mask alike *)
C16_Witness ==
    /\ Padded
    /\ call.msk # NoArray
    /\ \E k \in 1..Len(call.final_size) :
          /\ call.final_size[k] - SpatialShape(call.img)[k] = 1
          /\ result.out.pad[k + 1] = <<0, 1>>
    /\ \E k \in 1..Len(call.final_size) :
          call.final_size[k] - SpatialShape(call.img)[k] = 2
    /\ result.out.msk.shape # call.msk.shape

----------------------------------------------------------------------------
(* random_crop called on its own *)

RandomCrop ==
    /\ PatchIdle
    /\ \E sp \in ShapePairs :
      \E msk \in Masks(sp[1]) :
      \E out \in random_crop(Image(sp[1]), msk, sp[2]) :
          /\ call' = [fn |-> "random_crop", img |-> Image(sp[1]),
                      msk |-> msk, crop_shape |-> sp[2]]
          /\ result' = Returned(out)
          /\ UNCHANGED loaderVars
          /\ UNCHANGED producerVars

SpecRandomCrop == PatchInit /\ [][RandomCrop]_vars

(* C17: the start random_crop draws satisfies, on every axis,              *)
(* 0 <= start <= max(1, source - target), and start = 0 on every axis      *)
(* where the target is at least the source.                                *)
C17_RandomStart ==
    (result.done /\ call.fn = "random_crop") =>
        LET src == SpatialShape(call.img)
        IN  /\ result.out.error = "none"
            /\ Len(result.out.start) = Len(src)
            /\ \A k \in 1..Len(src) :
                  /\ 0 <= result.out.start[k]
                  /\ result.out.start[k] <= Max2(1, src[k] - call.crop_shape[k])
                  /\ call.crop_shape[k] >= src[k] => result.out.start[k] = 0

(* a crop that started past 0 on one axis and had a target at least the    *)
(* source on another                                                       *)
C17_Witness ==
    /\ result.done /\ call.fn = "random_crop"
    /\ \E k \in 1..Len(call.crop_shape) : result.out.start[k] > 0
    /\ \E k \in 1..Len(call.crop_shape) :
          /\ call.crop_shape[k] >= SpatialShape(call.img)[k]
          /\ result.out.start[k] = 0

(* C29: on every axis where the source is larger than the target, the     *)
(* window random_crop draws satisfies start + target <= source - 1: the    *)
(* crop lies inside the source, has the target size, and never holds the   *)
(* last index (source - 1) of that axis, whatever is drawn.                *)
C29_LastIndexNeverCropped ==
    (result.done /\ call.fn = "random_crop") =>
        LET src == SpatialShape(call.img)
            out == result.out
        IN  \A k \in 1..Len(src) :
                src[k] > call.crop_shape[k] =>
                    /\ out.start[k] + call.crop_shape[k] <= src[k] - 1
                    /\ SpatialShape(out.img)[k] = call.crop_shape[k]
                    /\ \A i \in Index(out.img.shape) :
                          out.img.at[i] =
                              call.img.at[[a \in 1..Len(i) |->
                                  IF a = 1 THEN i[a] ELSE i[a] + out.start[a - 1]]]

(* the largest start was drawn on an axis two longer than the target: the  *)
(* window ends one short of the end of the source                          *)
C29_Witness ==
    /\ result.done /\ call.fn = "random_crop"
    /\ \E k \in 1..Len(call.crop_shape) :
          /\ SpatialShape(call.img)[k] = call.crop_shape[k] + 2
          /\ result.out.start[k] = 1

----------------------------------------------------------------------------
(* located_crop called on its own: the anchor is a voxel of the source,    *)
(* the mask has the value 1 there, the margin is the same on every axis    *)

LocatedCrop ==
    /\ PatchIdle
    /\ \E sp \in ShapePairs :
      \E location \in Index(sp[1]), m \in 0..MaxMargin :
      \E out \in located_crop(Image(sp[1]), Mask(sp[1], <<{location}>>),
                              location, sp[2], Uniform(Len(sp[1]), m)) :
          /\ call' = [fn |-> "located_crop", img |-> Image(sp[1]),
                      msk |-> Mask(sp[1], <<{location}>>),
                      location |-> location, crop_shape |-> sp[2],
                      margin |-> Uniform(Len(sp[1]), m)]
          /\ result' = Returned(out)
          /\ UNCHANGED loaderVars
          /\ UNCHANGED producerVars

SpecLocatedCrop == PatchInit /\ [][LocatedCrop]_vars

(* the case C11 speaks of: target no larger than the source on every axis  *)
(* and a margin m with 2m < target                                         *)
LocatedCase ==
    /\ result.done /\ call.fn = "located_crop"
    /\ \A k \in 1..Len(call.crop_shape) :
          /\ call.crop_shape[k] <= SpatialShape(call.img)[k]
          /\ 2 * call.margin[k] < call.crop_shape[k]

(* C11: for a target no larger than the source, an anchor inside the       *)
(* source and a margin m >= 0 with 2m < target, every start located_crop   *)
(* draws satisfies start + m <= anchor < start + target - m on every axis  *)
(* (with margin 0: the anchor is inside the window).                       *)
C11_AnchorInWindow ==
    LocatedCase =>
        /\ result.out.error = "none"
        /\ \A k \in 1..Len(call.crop_shape) :
              /\ result.out.start[k] + call.margin[k] <= call.location[k]
              /\ call.location[k] <
                    result.out.start[k] + call.crop_shape[k] - call.margin[k]

----------------------------------------------------------------------------
(* foreground_crop *)

(* np.argwhere(msk[rnd_label] == 1) *)
argwhere(msk, rnd_label) ==
    { v \in Index(Tail(msk.shape)) : msk.at[<<rnd_label>> \o v] = 1 }

(* the outcome o of the crop that foreground_crop delegated to *)
Chose(o, rnd_label, branch, center) ==
    [error |-> o.error, start |-> o.start, img |-> o.img, msk |-> o.msk,
     rnd_label |-> rnd_label, branch |-> branch, center |-> center]

(* foreground_crop without the test for an empty channel: random.choice    *)
(* of an empty sequence raises IndexError                                  *)
foreground_crop_without_fallback(img, msk, final_size, fg_margin) ==
    UNION { IF argwhere(msk, rnd_label) = {}
            THEN { Chose(Failed("IndexError"), rnd_label, "located", <<>>) }
            ELSE UNION { { Chose(o, rnd_label, "located", center) :
                             o \in located_crop(img, msk, center, final_size,
                                                fg_margin) }
                         : center \in argwhere(msk, rnd_label) }
          : rnd_label \in 0..(msk.shape[1] - 1) }

(* foreground_crop: one outcome per label, anchor and start it can draw *)
foreground_crop(img, msk, final_size, fg_margin) ==
    UNION { IF argwhere(msk, rnd_label) = {}
            THEN { Chose(o, rnd_label, "random", <<>>) :
                     o \in random_crop(img, msk, final_size) }
            ELSE UNION { { Chose(o, rnd_label, "located", center) :
                             o \in located_crop(img, msk, center, final_size,
                                                fg_margin) }
                         : center \in argwhere(msk, rnd_label) }
          : rnd_label \in 0..(msk.shape[1] - 1) }

(* foreground_crop called on its own with a margin of one value per axis *)
ForegroundCrop ==
    /\ PatchIdle
    /\ \E sp \in ShapePairs :
      \E msk \in Masks(sp[1]), m \in 0..MaxMargin :
      \E out \in foreground_crop(Image(sp[1]), msk, sp[2], Uniform(Len(sp[1]), m)) :
          /\ call' = [fn |-> "foreground_crop", img |-> Image(sp[1]),
                      msk |-> msk, final_size |-> sp[2],
                      fg_margin |-> Uniform(Len(sp[1]), m)]
          /\ result' = Returned(out)
          /\ UNCHANGED loaderVars
          /\ UNCHANGED producerVars

SpecForegroundCrop == PatchInit /\ [][ForegroundCrop]_vars

(* C18: foreground_crop never raises on degenerate input. When the chosen  *)
(* channel has no voxel equal to 1 it returns what random_crop returns     *)
(* (one crop, no second draw of a channel); otherwise its anchor is a      *)
(* voxel where the chosen channel equals 1; a target larger than the       *)
(* source is handled without error.                                        *)
C18_ForegroundNeverRaises ==
    (result.done /\ call.fn = "foreground_crop") =>
        /\ result.out.error = "none"
        /\ IF argwhere(call.msk, result.out.rnd_label) = {}
           THEN /\ result.out.branch = "random"
                /\ \E o \in random_crop(call.img, call.msk, call.final_size) :
                      /\ o.start = result.out.start
                      /\ o.img = result.out.img
                      /\ o.msk = result.out.msk
           ELSE /\ result.out.branch = "located"
                /\ call.msk.at[<<result.out.rnd_label>> \o result.out.center] = 1

(* the chosen channel was empty while another channel was not, and the     *)
(* target was larger than the source on some axis                          *)
C18_Witness ==
    /\ result.done /\ call.fn = "foreground_crop"
    /\ argwhere(call.msk, result.out.rnd_label) = {}
    /\ \E c \in 0..(call.msk.shape[1] - 1) : argwhere(call.msk, c) # {}
    /\ \E k \in 1..Len(call.final_size) :
          call.final_size[k] > SpatialShape(call.img)[k]
    /\ result.out.error = "none"

----------------------------------------------------------------------------
(* random_crop_pad and RandomCropAndPadTransform                           *)
(*                                                                         *)
(* fg_rate and the value of random.random() are counted in hundredths.     *)

MaxList == 2       \* a batched list holds 1..MaxList samples

(* defaults of random_crop_pad *)
default_fg_rate == 33

default_fg_margin == <<0, 0, 0>>

(* values random.random() returns: 0 <= force_fg < 1 *)
Flips == {0, default_fg_rate, 99}

(* a python list of arrays *)
List(arrays) == [list |-> arrays]

IsList(x) == "list" \in DOMAIN x

(* the pair a sample's crop and pad ends with, or the exception raised *)
Sample(o, force_fg, branch, padded) ==
    [error |-> o.error, img |-> o.img, msk |-> o.msk,
     force_fg |-> force_fg, branch |-> branch, padded |-> padded]

(* the pad step applied only when every axis differs from final_size *)
pad_if_every_axis_differs(o, final_size, force_fg, branch) ==
    IF o.error # "none" THEN Sample(o, force_fg, branch, FALSE)
    ELSE IF \A k \in 1..Len(final_size) :
               SpatialShape(o.img)[k] - final_size[k] # 0
    THEN Sample(centered_pad(o.img, final_size, o.msk), force_fg, branch, TRUE)
    ELSE Sample(o, force_fg, branch, FALSE)

(* "pad if needed": the crop o is padded when its image differs from       *)
(* final_size on any axis; an exception of the crop goes to the caller     *)
pad_if_needed(o, final_size, force_fg, branch) ==
    IF o.error # "none" THEN Sample(o, force_fg, branch, FALSE)
    ELSE IF \E k \in 1..Len(final_size) :
               SpatialShape(o.img)[k] - final_size[k] # 0
    THEN Sample(centered_pad(o.img, final_size, o.msk), force_fg, branch, TRUE)
    ELSE Sample(o, force_fg, branch, FALSE)

RECURSIVE random_crop_pad(_, _, _, _, _)
RECURSIVE batch_mode(_, _, _, _)

(* the loop of the batch mode from sample i on: every sample is cropped    *)
(* by random_crop_pad(img[i], msk[i], final_size), that is with the        *)
(* default fg_rate and fg_margin; the first exception ends the loop        *)
batch_mode(img, msk, final_size, i) ==
    IF i > Len(img.list) THEN {<<>>}
    ELSE UNION { IF o.error # "none" THEN {<<o>>}
                 ELSE { <<o>> \o rest :
                          rest \in batch_mode(img, msk, final_size, i + 1) }
               : o \in random_crop_pad(img.list[i], msk.list[i], final_size,
                                       default_fg_rate, default_fg_margin) }

(* random_crop_pad: for a list the sequences of samples the loop can       *)
(* produce, for one sample the pairs it can return                         *)
random_crop_pad(img, msk, final_size, fg_rate, fg_margin) ==
    IF IsList(img) THEN batch_mode(img, msk, final_size, 1)
    ELSE UNION {
           IF fg_rate > 0 /\ force_fg < fg_rate
           THEN { pad_if_needed(o, final_size, force_fg, "foreground") :
                    o \in foreground_crop(img, msk, final_size, fg_margin) }
           ELSE { pad_if_needed(o, final_size, force_fg, "random") :
                    o \in random_crop(img, msk, final_size) }
         : force_fg \in Flips }

(* what random_crop_pad returned, as the sequence of its samples *)
AsSamples(img, out) == IF IsList(img) THEN out ELSE <<out>>

(* fg_rate values a transform is configured with *)
Rates == {0, default_fg_rate, 100}

(* a mask with one voxel, smaller than the images that have more *)
OneVoxelMask(spatial) == Mask(Uniform(Len(spatial), 1), <<{}>>)

(* single samples: any source with any target of as many axes, a mask of   *)
(* one channel with the image's shape, or a one-voxel mask                 *)
SingleInputs ==
    UNION { { [data |-> Image(sp[1]), seg |-> msk, crop_size |-> sp[2]] :
                msk \in {Mask(sp[1], <<fg>>) : fg \in Foregrounds(sp[1])}
                        \cup {OneVoxelMask(sp[1])} }
            : sp \in ShapePairs }

(* targets one smaller, equal or one larger than the source on every axis *)
Near(spatial) ==
    { t \in { [k \in 1..Len(spatial) |-> spatial[k] + e] : e \in {-1, 0, 1} } :
        \A k \in 1..Len(spatial) : t[k] >= 1 }

(* batched lists: 1..MaxList copies of one sample whose mask has the       *)
(* image's shape                                                           *)
ListInputs ==
    UNION { { [data |-> List([i \in 1..n |-> Image(src)]),
               seg |-> List([i \in 1..n |-> Mask(src, <<fg>>)]),
               crop_size |-> t] :
                t \in Near(src), fg \in {{}, {LastVoxel(src)}},
                n \in 1..MaxList }
            : src \in Planes \cup Volumes }

(* RandomCropAndPadTransform(crop_size, fg_rate).__call__(data, seg) *)
Transform ==
    /\ PatchIdle
    /\ \E in \in SingleInputs \cup ListInputs, fg_rate \in Rates :
       \E out \in random_crop_pad(in.data, in.seg, in.crop_size, fg_rate,
                                  default_fg_margin) :
          /\ call' = [fn |-> "RandomCropAndPadTransform", data |-> in.data,
                      seg |-> in.seg, crop_size |-> in.crop_size,
                      fg_rate |-> fg_rate]
          /\ result' = Returned(AsSamples(in.data, out))
          /\ UNCHANGED loaderVars
          /\ UNCHANGED producerVars

SpecPatch == PatchInit /\ [][Transform]_vars

Transformed == result.done /\ call.fn = "RandomCropAndPadTransform"

(* the samples passed to the transform, as a sequence *)
Given(x) == IF IsList(x) THEN x.list ELSE <<x>>

(* the transform returned: no sample raised *)
Passed == Transformed /\ \A i \in DOMAIN result.out : result.out[i].error = "none"

(* C12: a sample gets the foreground crop only when its coin flip is below *)
(* the configured fg_rate, for a single sample and for a batched list      *)
(* alike: with fg_rate = 0 no sample gets it, with fg_rate >= 1 every      *)
(* sample gets it.                                                         *)
C12_RateDecidesBranch ==
    Transformed =>
        \A i \in DOMAIN result.out :
            /\ result.out[i].branch = "foreground"
                  => result.out[i].force_fg < call.fg_rate
            /\ call.fg_rate = 0 => result.out[i].branch # "foreground"
            /\ call.fg_rate >= 100 => result.out[i].branch = "foreground"

(* C13: whatever the source (every axis >= 1) and the target, random_crop  *)
(* followed by the pad step returns an image and a mask whose spatial      *)
(* shape is the target on every axis, whatever start was drawn.            *)
C13_RandomCropPadShape ==
    Transformed =>
        \A i \in DOMAIN result.out :
            (/\ result.out[i].branch = "random"
             /\ SpatialShape(Given(call.seg)[i]) = SpatialShape(Given(call.data)[i]))
            => /\ result.out[i].error = "none"
               /\ SpatialShape(result.out[i].img) = call.crop_size
               /\ SpatialShape(result.out[i].msk) = call.crop_size

(* a one-voxel source went through random_crop and was padded, and so was  *)
(* a source cropped on one axis and padded on another                      *)
C13_Witness ==
    /\ Passed /\ ~IsList(call.data)
    /\ result.out[1].branch = "random" /\ result.out[1].padded
    /\ SpatialShape(call.seg) = SpatialShape(call.data)
    /\ \E k \in 1..Len(call.crop_size) :
          call.crop_size[k] < SpatialShape(call.data)[k]
    /\ \E k \in 1..Len(call.crop_size) :
          call.crop_size[k] > SpatialShape(call.data)[k]

(* C14: with 2 spatial axes as with 3, the transform (which leaves the     *)
(* margin at its default) returns an image and a mask of exactly           *)
(* crop_size without raising, on the random branch and on the foreground   *)
(* branch taken when the chosen channel has a foreground voxel (one       *)
(* sample whose mask has the image's shape).                               *)
C14_TwoAndThreeAxes ==
    (/\ Transformed /\ ~IsList(call.data)
     /\ SpatialShape(call.seg) = SpatialShape(call.data))
    => /\ result.out[1].error = "none"
       /\ SpatialShape(result.out[1].img) = call.crop_size
       /\ SpatialShape(result.out[1].msk) = call.crop_size

(* C19: an image and a mask of the same spatial shape before the transform *)
(* have the same spatial shape after it, on every crop branch and for      *)
(* every sample of a batched list.                                         *)
C19_ShapesStayPaired ==
    Passed =>
        \A i \in DOMAIN result.out :
            SpatialShape(Given(call.seg)[i]) = SpatialShape(Given(call.data)[i])
            => SpatialShape(result.out[i].msk) = SpatialShape(result.out[i].img)

(* a batched list of two samples came back, one through the foreground     *)
(* branch and one through the random branch, both padded                   *)
C19_Witness ==
    /\ Passed /\ IsList(call.data)
    /\ Len(result.out) = 2
    /\ result.out[1].branch = "foreground" /\ result.out[1].padded
    /\ result.out[2].branch = "random" /\ result.out[2].padded
    /\ SpatialShape(result.out[1].msk) = SpatialShape(result.out[1].img)

(* C20: whenever the transform completes with an image and a mask whose    *)
(* spatial shapes differ, a ShapeMismatchError is raised to the caller; a  *)
(* mismatched pair is never passed on.                                     *)
C20_MismatchRaises ==
    Passed =>
        \A i \in DOMAIN result.out :
            SpatialShape(result.out[i].msk) = SpatialShape(result.out[i].img)

----------------------------------------------------------------------------
(* Construction of a BatchGenDataLoader: training and validation lists     *)
(*                                                                         *)
(* A fold table is the sequence of its rows [filename, hold_out, fold]; a  *)
(* directory listing is the sequence of its entries. A python list is a    *)
(* sequence: python index i is position i + 1.                             *)

(* Bounds of the construction model *)
MaxRows == 3       \* a fold table has 0..MaxRows rows, a directory as many entries
MaxFold == 2       \* the fold of a row ranges over 0..MaxFold

RECURSIVE Concat(_)
Concat(lists) == IF lists = <<>> THEN <<>> ELSE Head(lists) \o Concat(Tail(lists))

(* the sequence s without position p *)
Without(s, p) == SubSeq(s, 1, p - 1) \o SubSeq(s, p + 1, Len(s))

(* list(df[df[key]==value].iloc[:,0]): the file names of the rows whose    *)
(* column key has the given value, in row order                            *)
RECURSIVE Column(_, _, _)
Column(df, key, value) ==
    IF df = <<>> THEN <<>>
    ELSE (IF Head(df)[key] = value THEN <<Head(df).filename>> ELSE <<>>)
         \o Column(Tail(df), key, value)

(* df[df['hold_out']==h] *)
RECURSIVE Rows(_, _)
Rows(df, h) ==
    IF df = <<>> THEN <<>>
    ELSE (IF Head(df).hold_out = h THEN <<Head(df)>> ELSE <<>>) \o Rows(Tail(df), h)

(* get_folds_df that numbers the folds from 1 *)
get_folds_df_from_one(df) ==
    IF df = <<>> THEN <<>>
    ELSE [i \in 1..(MaxOf([r \in 1..Len(df) |-> df[r].fold]) + 1) |->
            Column(df, "fold", i)]

(* get_folds_df: fold i of the result holds the filenames of the rows      *)
(* whose fold is i, in row order; an empty table gives no fold at all      *)
get_folds_df(df) ==
    IF df = <<>> THEN <<>>
    ELSE [i \in 1..(MaxOf([r \in 1..Len(df) |-> df[r].fold]) + 1) |->
            Column(df, "fold", i - 1)]

(* get_folds_train_test_df with merge_test=True *)
get_folds_train_test_df(df) ==
    [train_folds |-> get_folds_df(Rows(df, 0)),
     test_folds  |-> Concat(get_folds_df(Rows(df, 1)))]

NoSplit(e) == [error |-> e, train_imgs |-> <<>>, val_imgs |-> <<>>]

(* __init__ with folds_csv: val_imgs = trainset[fold]; del trainset[fold]; *)
(* train_imgs = the remaining folds joined. A python index below 0 counts  *)
(* from the end; one outside the list raises IndexError.                   *)
fold_split(df, fold) ==
    LET trainset == get_folds_train_test_df(df).train_folds
        n == Len(trainset)
        p == IF fold >= 0 THEN fold + 1 ELSE n + fold + 1
    IN  IF fold >= n \/ fold < -n THEN NoSplit("IndexError")
        ELSE [error |-> "none",
              train_imgs |-> Concat(Without(trainset, p)),
              val_imgs |-> trainset[p]]

(* np.round(num / den): to the nearest integer, a half to the even one *)
round(num, den) ==
    LET q == num \div den
        r == num % den
    IN  IF 2 * r < den THEN q
        ELSE IF 2 * r > den THEN q + 1
        ELSE IF q % 2 = 0 THEN q ELSE q + 1

(* the directory split without the step that turns 0 into 1 *)
listdir_split_may_be_empty(all_set, val_split) ==
    LET k == round(val_split * Len(all_set), 4)
    IN  [error |-> "none",
         train_imgs |-> SubSeq(all_set, k + 1, Len(all_set)),
         val_imgs |-> SubSeq(all_set, 1, Min2(k, Len(all_set)))]

(* __init__ without folds_csv: val_split * len(all_set), rounded, and 1    *)
(* where that is 0; val_split is counted in quarters                       *)
listdir_split(all_set, val_split) ==
    LET k0 == round(val_split * Len(all_set), 4)
        k  == IF k0 = 0 THEN 1 ELSE k0
    IN  [error |-> "none",
         train_imgs |-> SubSeq(all_set, k + 1, Len(all_set)),
         val_imgs |-> SubSeq(all_set, 1, Min2(k, Len(all_set)))]

(* generate_data with load_data=False: one record per file name, the path  *)
(* of its image and the path of its mask                                   *)
generate_data(fnames) ==
    [idx \in 1..Len(fnames) |->
        [data |-> <<"img_dir", fnames[idx]>>, seg |-> <<"msk_dir", fnames[idx]>>]]

(* the rest of __init__ after the split: the active list, the records and  *)
(* the fields of the loader; an exception of the split ends __init__       *)
Constructed(split, train, batch_size, nbof_steps, num_threads_in_mt) ==
    LET fnames == IF train THEN split.train_imgs ELSE split.val_imgs
    IN  [error |-> split.error,
         train_imgs |-> split.train_imgs, val_imgs |-> split.val_imgs,
         fnames |-> fnames, data |-> generate_data(fnames),
         self |-> IF split.error # "none" THEN <<>>
                  ELSE BatchGenDataLoader(Len(fnames), batch_size, nbof_steps,
                                          num_threads_in_mt)]

(* fold tables of up to n rows; the file name of a row is its number, so  *)
(* no name occurs twice                                                    *)
Tables(n) ==
    UNION { { [i \in 1..m |-> [filename |-> i, hold_out |-> r[i][1],
                               fold |-> r[i][2]]] :
                r \in [1..m -> {0, 1} \X (0..MaxFold)] }
            : m \in 0..n }

(* directory listings of up to n entries *)
Listings(n) == { [i \in 1..m |-> i] : m \in 0..n }

Range(s) == { s[i] : i \in 1..Len(s) }

(* BatchGenDataLoader(..., folds_csv=df, fold=fold, train=train) *)
FromFolds(tables, folds, batch_sizes) ==
    /\ PatchIdle
    /\ \E df \in tables, fold \in folds, train \in BOOLEAN, b \in batch_sizes :
          LET made_ == Constructed(fold_split(df, fold), train, b, 2, 1)
          IN  /\ call' = [fn |-> "BatchGenDataLoader", folds_csv |-> df,
                          fold |-> fold, train |-> train, batch_size |-> b]
              /\ result' = Returned(made_)
              /\ gen' = made_.self
              /\ lastOp' = "init"
              /\ UNCHANGED <<ret, origin, resetFrom, served, ended>>
              /\ UNCHANGED producerVars

(* BatchGenDataLoader(..., folds_csv=None, val_split=val_split, train=train) *)
FromListing(listings, batch_sizes) ==
    /\ PatchIdle
    /\ \E all_set \in listings, val_split \in 0..4, train \in BOOLEAN,
          b \in batch_sizes :
          LET made_ == Constructed(listdir_split(all_set, val_split), train, b, 2, 1)
          IN  /\ call' = [fn |-> "BatchGenDataLoader", all_set |-> all_set,
                          val_split |-> val_split, train |-> train,
                          batch_size |-> b]
              /\ result' = Returned(made_)
              /\ gen' = made_.self
              /\ lastOp' = "init"
              /\ UNCHANGED <<ret, origin, resetFrom, served, ended>>
              /\ UNCHANGED producerVars

NextSplit ==
    \/ FromFolds(Tables(MaxRows), (0 - MaxFold - 2)..(MaxFold + 1), {1})
    \/ FromListing(Listings(MaxRows), {1})

SpecSplit == PatchInit /\ [][NextSplit]_vars

Built == result.done /\ call.fn = "BatchGenDataLoader"

BuiltFromFolds == Built /\ "folds_csv" \in DOMAIN call

(* largest fold of the rows that are not held out (-1 when there is none) *)
max_fold(df) == MaxOf([r \in 1..Len(Rows(df, 0)) |-> Rows(df, 0)[r].fold + 1]) - 1

(* C21: for a fold table with unique file names and a held-out fold f in   *)
(* 0..max_fold, the validation list is exactly the non-holdout file names  *)
(* of fold f, the training list is the other non-holdout folds joined in   *)
(* increasing fold index, the two lists are disjoint, together they hold   *)
(* every non-holdout file name, and no holdout row is in either.           *)
C21_FoldSplit ==
    (BuiltFromFolds /\ call.fold >= 0 /\ call.fold <= max_fold(call.folds_csv)) =>
        LET df   == call.folds_csv
            kept == Rows(df, 0)
            out  == result.out
        IN  /\ out.error = "none"
            /\ out.val_imgs = Column(kept, "fold", call.fold)
            /\ out.train_imgs =
                  Concat([i \in 1..max_fold(df) |->
                            Column(kept, "fold",
                                   IF i - 1 < call.fold THEN i - 1 ELSE i)])
            /\ Range(out.val_imgs) \cap Range(out.train_imgs) = {}
            /\ Range(out.val_imgs) \cup Range(out.train_imgs)
                  = { kept[r].filename : r \in 1..Len(kept) }
            /\ \A r \in 1..Len(df) :
                  df[r].hold_out = 1 =>
                      df[r].filename \notin
                          Range(out.val_imgs) \cup Range(out.train_imgs)
            /\ out.fnames = IF call.train THEN out.train_imgs ELSE out.val_imgs

(* three folds of one non-holdout row each, the middle one held out for    *)
(* validation: one validation file, two training files                     *)
C21_Witness ==
    /\ BuiltFromFolds /\ call.fold = 1 /\ max_fold(call.folds_csv) = 2
    /\ Len(result.out.val_imgs) = 1
    /\ Len(result.out.train_imgs) = 2
    /\ result.out.error = "none"

(* C22: splitting fails (the claim names the error ConfigurationError)     *)
(* when the fold table is empty and whenever the held-out fold is outside  *)
(* 0..max_fold, negative indices included: in none of these cases is a     *)
(* training / validation split returned.                                   *)
C22_BadFoldGivesNoSplit ==
    (BuiltFromFolds /\ (\/ call.folds_csv = <<>>
                        \/ call.fold < 0
                        \/ call.fold > max_fold(call.folds_csv)))
    => result.out.error # "none"

BuiltFromListing == Built /\ "all_set" \in DOMAIN call

(* C30: without a fold table the first k directory entries are the         *)
(* validation list and the remaining ones the training list, with k >= 1:  *)
(* the lists are disjoint, together they hold every entry exactly once,    *)
(* and the validation list is non-empty whenever the directory is (a       *)
(* one-file directory leaves the training list empty).                     *)
C30_ListingSplit ==
    BuiltFromListing =>
        LET all_set == call.all_set
            out     == result.out
        IN  /\ out.error = "none"
            /\ \E k \in 1..Max2(1, Len(all_set)) :
                  /\ out.val_imgs = SubSeq(all_set, 1, Min2(k, Len(all_set)))
                  /\ out.train_imgs = SubSeq(all_set, k + 1, Len(all_set))
            /\ out.val_imgs \o out.train_imgs = all_set
            /\ Range(out.val_imgs) \cap Range(out.train_imgs) = {}
            /\ all_set # <<>> => out.val_imgs # <<>>
            /\ Len(all_set) = 1 => out.train_imgs = <<>>

(* a directory of one file: it is the validation list, the training list   *)
(* is empty                                                                *)
C30_Witness ==
    /\ BuiltFromListing /\ Len(call.all_set) = 1
    /\ result.out.val_imgs = call.all_set
    /\ result.out.train_imgs = <<>>

----------------------------------------------------------------------------
(* Batches of a constructed loader *)

(* a batch whose masks are all the mask of its first record *)
batch_list_first_mask(data, indices) ==
    [data |-> [i \in 1..Len(indices) |-> data[indices[i] + 1].data],
     seg  |-> [i \in 1..Len(indices) |-> data[indices[1] + 1].seg]]

(* generate_train_batch after get_indices: batch_list = [self._data[i] for *)
(* i in indices], then the images and the masks of batch_list              *)
batch_list(data, indices) ==
    [data |-> [i \in 1..Len(indices) |-> data[indices[i] + 1].data],
     seg  |-> [i \in 1..Len(indices) |-> data[indices[i] + 1].seg]]

(* the caller asks the constructed loader for a batch *)
GenerateTrainBatch ==
    /\ Built /\ result.out.error = "none"
    /\ \E o \in generate_train_batch(gen) :
          /\ gen' = o.self
          /\ ret' = [kind |-> o.kind, indices |-> o.batch.data,
                     batch |-> IF o.kind = "indices"
                               THEN batch_list(result.out.data, o.batch.data)
                               ELSE <<>>]
          /\ lastOp' = "generate_train_batch"
    /\ UNCHANGED <<origin, resetFrom, served, ended>>
    /\ UNCHANGED producerVars
    /\ UNCHANGED patchVars

NextBatch ==
    \/ FromFolds(Tables(MaxFiles), 0..MaxFold, 1..MaxBatch)
    \/ FromListing(Listings(MaxFiles), 1..MaxBatch)
    \/ GenerateTrainBatch

SpecBatch == PatchInit /\ [][NextBatch]_vars

(* C23: a loader whose active file list is empty fails at construction     *)
(* time; the failure is never deferred to the first request for a batch.   *)
C23_EmptyListFailsAtConstruction ==
    /\ (Built /\ result.out.fnames = <<>>) => result.out.error # "none"
    /\ lastOp = "generate_train_batch" => ret.kind # "ValueError"

(* C27: every batch generate_train_batch returns holds exactly batch_size  *)
(* records, each the image and the mask of one and the same file of the    *)
(* active list (training list when train is true, validation list          *)
(* otherwise); a training loader never returns a file of the validation    *)
(* list nor a validation loader a file of the training list.               *)
C27_BatchFromActiveList ==
    (lastOp = "generate_train_batch" /\ ret.kind = "indices") =>
        LET out    == result.out
            active == IF call.train THEN out.train_imgs ELSE out.val_imgs
            other  == IF call.train THEN out.val_imgs ELSE out.train_imgs
        IN  /\ Len(ret.batch.data) = call.batch_size
            /\ Len(ret.batch.seg) = call.batch_size
            /\ \A i \in 1..call.batch_size :
                  \E f \in Range(active) :
                      /\ ret.batch.data[i] = <<"img_dir", f>>
                      /\ ret.batch.seg[i] = <<"msk_dir", f>>
                      /\ f \notin Range(other)

(* a training loader with a non-empty validation list returned a batch     *)
(* holding one file twice, and a batch holding two different files         *)
C27_Witness ==
    /\ lastOp = "generate_train_batch" /\ ret.kind = "indices"
    /\ call.train /\ result.out.val_imgs # <<>>
    /\ Len(ret.batch.data) = 2
    /\ ret.batch.data[1] = ret.batch.data[2]
    /\ Len(result.out.train_imgs) >= 1

----------------------------------------------------------------------------
(* A loader used on its own with any stride, the default one included *)

(* default of num_threads_in_mt in BatchGenDataLoader.__init__ *)
default_num_threads_in_mt == 12

InitStride ==
    /\ ProducerIdle
    /\ PatchIdle
    /\ \E n \in 0..MaxSteps, s \in (1..MaxStride) \cup {default_num_threads_in_mt} :
          gen = BatchGenDataLoader(1, 1, n, s)
    /\ ret = [kind |-> "none", indices |-> <<>>]
    /\ lastOp = "init"
    /\ origin = "fresh"
    /\ resetFrom = "none"
    /\ served = 0
    /\ ended = NoPass

SpecStride == InitStride /\ [][NextLoader]_vars

(* C28: with stride s >= 1 the step counter advances by s on every         *)
(* successful get_indices and by 0 on the call that raises StopIteration,  *)
(* so a pass (from construction, from a reset or from the restart after    *)
(* an end-of-stream) returns exactly ceil(nbof_steps / s) batches; with    *)
(* the default stride 12 that is ceil(nbof_steps / 12), not nbof_steps.    *)
C28_StrideCeil ==
    LET s == gen.number_of_threads_in_multithreaded
    IN  /\ (lastOp = "get_indices" /\ ret.kind = "indices")
              => gen.current_position = served * s
        /\ (lastOp = "get_indices" /\ ret.kind = "StopIteration")
              => /\ gen.current_position = ended.served * s
                 /\ ended.served = (gen.nbof_steps + s - 1) \div s

(* default stride 12 and nbof_steps = 10: the pass ended after one batch *)
C28_Witness ==
    /\ gen.number_of_threads_in_multithreaded = default_num_threads_in_mt
    /\ gen.nbof_steps = 10
    /\ lastOp = "get_indices" /\ ret.kind = "StopIteration"
    /\ ended.served = 1
----------------------------------------------------------------------------
(* DownsampleSegForDSTransform2 and the end of the transform pipelines.     *)
(* A label array is [id, shape, at]: id tells one array object from         *)
(* another (0 is the array the caller passed in), shape is (b, c, spatial), *)
(* at its content. A scale factor is counted in quarters: 4 is 1, 2 is 0.5, *)
(* 1 is 0.25. A scale level is [scalar |-> q] or [tuple |-> <<q, ...>>].     *)

MaxExtent == 8     \* a label array with one spatial axis has 1..MaxExtent voxels on it
MaxLevels == 2     \* ds_scales holds 0..MaxLevels levels
MaxVoxels == 4     \* label arrays of up to MaxVoxels voxels also come with two labels

IsTuple(s) == "tuple" \in DOMAIN s

(* s after lines 271-276: one factor per axis, or the failed assert *)
factors(s, naxes) ==
    IF ~IsTuple(s) THEN [k \in 1..naxes |-> s.scalar]
    ELSE s.tuple

(* lines 281-284, rounding a half up *)
new_shape_half_up(shape, s) ==
    [a \in 1..Len(shape) |->
        IF a <= 2 THEN shape[a] ELSE (2 * shape[a] * s[a - 2] + 4) \div 8]

(* lines 281-284: new_shape[a] *= s[i] on the axes 2.., then np.round *)
new_shape(shape, s) ==
    [a \in 1..Len(shape) |->
        IF a <= 2 THEN shape[a] ELSE round(shape[a] * s[a - 2], 4)]

(* what lines 285-289 can leave in out_seg: a new array (id) of the new    *)
(* shape in which every plane [b, c] holds labels of plane [b, c] of seg    *)
(* only (resize_segmentation with order 0 copies voxels, it computes none). *)
out_seg(seg, shape, id) ==
    LET plane(b, c) == { seg.at[i] : i \in { j \in Index(seg.shape) : j[1] = b /\ j[2] = c } }
        labels == { seg.at[i] : i \in Index(seg.shape) }
    IN  { [id |-> id, shape |-> shape, at |-> at] :
            at \in { f \in [Index(shape) -> labels] :
                       \A i \in Index(shape) : f[i] \in plane(i[1], i[2]) } }

(* a pass of the loop that resizes a level of ones like any other level *)
level_copies_ones(seg, s, id) ==
    LET naxes == Len(seg.shape) - 2
    IN  IF IsTuple(s) /\ Len(s.tuple) # naxes
        THEN { [error |-> "AssertionError", arr |-> NoArray] }
        ELSE { [error |-> "none", arr |-> a] :
                 a \in out_seg(seg, new_shape(seg.shape, factors(s, naxes)), id) }

(* one pass of the loop of line 270 for level number id: the outcomes are   *)
(* [error, arr]. Resizing to no voxels at all is left to the library: it    *)
(* may raise or give the empty array.                                       *)
level(seg, s, id) ==
    LET naxes == Len(seg.shape) - 2
        f == factors(s, naxes)
        shape == new_shape(seg.shape, f)
    IN  IF IsTuple(s) /\ Len(s.tuple) # naxes
        THEN { [error |-> "AssertionError", arr |-> NoArray] }
        ELSE IF \A k \in 1..naxes : f[k] = 4
        THEN { [error |-> "none", arr |-> seg] }
        ELSE { [error |-> "none", arr |-> a] : a \in out_seg(seg, shape, id) }
             \cup (IF \E a \in 1..Len(shape) : shape[a] = 0
                   THEN { [error |-> "ResizeError", arr |-> NoArray] } ELSE {})

(* DownsampleSegForDSTransform2(ds_scales, 0)(target = seg), axes = None:   *)
(* the outcomes [error, output]; output is data_dict[output_key], a list    *)
RECURSIVE DownsampleSegForDSTransform2(_, _)
DownsampleSegForDSTransform2(ds_scales, seg) ==
    IF ds_scales = <<>> THEN { [error |-> "none", output |-> <<>>] }
    ELSE LET n == Len(ds_scales)
         IN  UNION { IF before.error # "none" THEN { before }
                     ELSE { IF l.error # "none"
                            THEN [error |-> l.error, output |-> <<>>]
                            ELSE [error |-> "none", output |-> Append(before.output, l.arr)]
                          : l \in level(seg, ds_scales[n], n) }
                   : before \in DownsampleSegForDSTransform2(
                                    SubSeq(ds_scales, 1, n - 1), seg) }

(* DictToTuple('data', 'target'): a target that is a list gives its first   *)
(* entry; an empty list has none                                            *)
DictToTuple(data, target) ==
    IF target = <<>>
    THEN [error |-> "IndexError", data |-> NoArray, type |-> "none", seg |-> <<>>]
    ELSE [error |-> "none", data |-> data, type |-> "array", seg |-> <<target[1]>>]

(* the last three stages of get_training_transforms and of                  *)
(* get_validation_transforms when deep_supervision_scales is not None:      *)
(* DownsampleSegForDSTransform2, NumpyToTensor (which converts a list entry *)
(* by entry and keeps it a list) and DictToTuple                            *)
last_transforms(ds_scales, data, target) ==
    { IF d.error # "none"
      THEN [error |-> d.error, data |-> NoArray, type |-> "none", seg |-> <<>>]
      ELSE DictToTuple(data, d.output)
    : d \in DownsampleSegForDSTransform2(ds_scales, target) }

(* the label arrays passed in: one or MaxList batch items or channels, with *)
(* one spatial axis of up to MaxExtent voxels or with two of up to MaxSize; *)
(* every voxel labelled 1, or (small arrays) only the first voxel of every  *)
(* plane                                                                    *)
Targets ==
    LET planes == { <<1, 1>>, <<MaxList, 1>>, <<1, MaxList>> }
        shapes == { p \o <<x>> : p \in planes, x \in 1..MaxExtent }
                  \cup { p \o <<x, y>> : p \in planes, x \in 1..MaxSize, y \in 1..MaxSize }
        voxels(shape) == Cardinality(Index(shape))
    IN  { [id |-> 0, shape |-> shape, at |-> [i \in Index(shape) |-> 1]] : shape \in shapes }
        \cup { [id |-> 0, shape |-> shape,
                at |-> [i \in Index(shape) |->
                          IF \A a \in 3..Len(shape) : i[a] = 0 THEN 1 ELSE 0]]
             : shape \in { sh \in shapes : voxels(sh) <= MaxVoxels } }

(* the scale levels a caller asks for: a scalar 0.25, 0.5 or 1, or a tuple  *)
(* of one or two such factors                                               *)
Levels ==
    { [scalar |-> s] : s \in {1, 2, 4} }
    \cup { [tuple |-> t] : t \in { <<4>>, <<2>>, <<4, 4>>, <<4, 2>>, <<2, 1>> } }

DsScales == UNION { [1..k -> Levels] : k \in 0..MaxLevels }

(* one call of the transform on a data_dict whose target is seg *)
Downsample ==
    /\ PatchIdle
    /\ \E seg \in Targets, ds_scales \in DsScales :
       \E o \in DownsampleSegForDSTransform2(ds_scales, seg) :
          /\ call' = [fn |-> "DownsampleSegForDSTransform2", ds_scales |-> ds_scales,
                      target |-> seg]
          /\ result' = Returned(o)
    /\ UNCHANGED <<gen, ret, lastOp, origin, resetFrom, served, ended,
                   length, loaders, wstate, made, queue, capacity, cstate,
                   got, failure, surfaced, abort>>

(* the end of a pipeline run on a data_dict with data and target, both    *)
(* with one spatial axis                                                   *)
LastTransforms ==
    /\ PatchIdle
    /\ \E seg \in { t \in Targets : Len(t.shape) = 3 }, ds_scales \in DsScales :
       \E o \in last_transforms(ds_scales, seg, seg) :
          /\ call' = [fn |-> "last_transforms", ds_scales |-> ds_scales,
                      target |-> seg]
          /\ result' = Returned(o)
    /\ UNCHANGED <<gen, ret, lastOp, origin, resetFrom, served, ended,
                   length, loaders, wstate, made, queue, capacity, cstate,
                   got, failure, surfaced, abort>>

NextDownsample == Downsample \/ LastTransforms

SpecDownsample == PatchInit /\ [][NextDownsample]_vars

Downsampled ==
    /\ result.done
    /\ call.fn = "DownsampleSegForDSTransform2"
    /\ result.out.error = "none"

AllOnes(s, seg) ==
    \A k \in 1..(Len(seg.shape) - 2) : factors(s, Len(seg.shape) - 2)[k] = 4

(* C24: in the list DownsampleSegForDSTransform2 returns, the entry of a    *)
(* level whose factors are all 1 (a scalar 1 or a tuple of ones) is the     *)
(* input label array itself, the same object with the same content, and     *)
(* the entry of a level with a factor other than 1 is an array allocated    *)
(* for that level, a different object from the input and from the entries   *)
(* allocated for other levels.                                              *)
C24_OnesPassThrough ==
    Downsampled =>
        LET out == result.out.output
        IN  \A i \in 1..Len(out) :
                IF AllOnes(call.ds_scales[i], call.target)
                THEN out[i] = call.target
                ELSE /\ out[i].id # call.target.id
                     /\ \A j \in 1..Len(out) : j # i => out[j].id # out[i].id

(* a level of ones and a level of halves were asked for in one call *)
C24_Witness ==
    /\ Downsampled
    /\ Len(call.ds_scales) = 2
    /\ call.ds_scales[1] = [tuple |-> <<4, 4>>]
    /\ call.ds_scales[2] = [scalar |-> 2]
    /\ \E i \in Index(call.target.shape) : call.target.at[i] = 0

(* C25: the list DownsampleSegForDSTransform2 writes has one entry per      *)
(* requested level, in the order of ds_scales; entry i has the batch and    *)
(* channel sizes of the input and on every spatial axis the size            *)
(* round(input size x factor of level i on that axis), a half rounding to   *)
(* the even neighbour.                                                      *)
C25_OneEntryPerScale ==
    Downsampled =>
        LET out == result.out.output
            in == call.target.shape
        IN  /\ Len(out) = Len(call.ds_scales)
            /\ \A i \in 1..Len(out) :
                 LET f == factors(call.ds_scales[i], Len(in) - 2)
                 IN  /\ Len(out[i].shape) = Len(in)
                     /\ out[i].shape[1] = in[1]
                     /\ out[i].shape[2] = in[2]
                     /\ \A a \in 3..Len(in) :
                          out[i].shape[a] = round(in[a] * f[a - 2], 4)
                     /\ DOMAIN out[i].at = Index(out[i].shape)

(* 8 voxels at 0.5 gave 4, or 5 voxels at 0.5 gave 2, next to a level of    *)
(* another size                                                             *)
C25_Witness ==
    /\ Downsampled
    /\ Len(call.ds_scales) = 2
    /\ call.ds_scales[1] = [scalar |-> 4]
    /\ call.ds_scales[2] = [scalar |-> 2]
    /\ call.target.shape[3] = 5
    /\ result.out.output[2].shape[3] = 2

(* C26: with k deep-supervision levels configured, the target of the        *)
(* (data, target) pair the pipeline returns carries the k label volumes     *)
(* DownsampleSegForDSTransform2 made, in order; none is dropped.            *)
C26_AllLevelsReturned ==
    (result.done /\ call.fn = "last_transforms" /\ result.out.error = "none") =>
        \E d \in DownsampleSegForDSTransform2(call.ds_scales, call.target) :
            /\ d.error = "none"
            /\ result.out.seg = d.output

====
